---- MODULE Spec2Model ----
(***************************************************************************)
(* OpenSATQKD: the post-processing pipeline of run_qkd_simulation          *)
(* (src/simulator/core.py) and the parallel channel simulator with its     *)
(* dark-count injection (src/utils/qkd_protocols.py).                      *)
(*                                                                         *)
(* Python strings and lists are sequences; Python indices stay 0-based as  *)
(* values, so index i of the code is element i + 1 of the sequence.        *)
(***************************************************************************)
EXTENDS Integers, Sequences, FiniteSets, TLC

(***************************************************************************)
(* Bounds of the model.                                                    *)
(***************************************************************************)
\* photons per batch; the session passes 500 (core.py:170, 172)
BatchSize == 1
\* largest number of signal photons the link budget lets arrive
MaxPhotons == 2
\* largest num_dark_counts of a session
MaxDark == 1
\* largest shots value (core.py:149 derives a power of ten from the photon count)
MaxShots == 2
\* longest raw sequence a session simulates
MaxRaw == 2
\* largest ask/reply parity-bit count the reconciliation adapter reports
MaxParity == 1
\* hash seeds are the periodic extensions of the bit patterns of this length
SeedPeriod == 1
\* longest sequence (concatenation plus dark counts) of a direct call of the
\* decoy simulators
MaxDecoyLen == 3
\* largest repetitions argument of a direct call of the decoy simulators
MaxReps == 2
\* longest str argument of a direct call of a utility function
MaxUtilLen == 4
\* longest index list argument of a direct call of a utility function
MaxIdxLen == 2
\* largest output_length argument of a direct call of toeplitz_seed
MaxHashOut == 2
\* photons of the educational exchange; config_educ.py:6 has 50
PHOTON_COUNT == 3

(***************************************************************************)
(* State.                                                                  *)
(***************************************************************************)
VARIABLES
    \* run_qkd_simulation (src/simulator/core.py)
    pc,                       \* the stage the generator runs next
    config,
    total_photons_arrived, num_dark_counts, shots,
    alice_bitstring, alice_bases, bob_bases, bob_bitstring,
    insert_indices, origin, pre_injection,   \* of the decoy simulator's call
    mismatched_indices, sifted_key_length,
    string_to_estimate_qber, indices_to_estimate_qber, estimated_qber,
    reconciled_key, efficiency, ask_bits, reply_bits,
    compare_hash_length, seed_val, compare_key,
    safe_key_perc, final_results,
    total_uplink_data, total_downlink_data,
    records,                  \* the progress records yielded so far
    stages,                   \* the stages entered so far
    error,                    \* the exception that ended the generator
    adapter_error,            \* the exception raised inside an external adapter
    \* a direct call of a decoy simulator (src/utils/qkd_protocols.py)
    fn, args, fn_pc, sim, get_outcome, ret,
    raised,                   \* the exception a directly called function raised
    \* the worker pool of a parallel simulator
    futures,                  \* the submitted batches, in submission order
    completed,                \* the batches that finished, in finishing order
    pool,                     \* the calls made on bench's multiprocessing.Pool
    \* the desktop front end (src/simulator/main.py)
    run_button,               \* state of the Run Simulation button
    workers,                  \* the live threads running task()
    output_box,               \* the lines run_simulation and task() insert
    error_dialog,             \* the validation error window is open
    \* the educational exchange (src/tracing)
    ground,                   \* ground.py: its position and module variables
    satellite,                \* satellite.py: its position and module variables
    to_ground,                \* datagrams in flight to the ground station
    to_satellite,             \* datagrams in flight to the satellite
    queue_pkl                 \* the file queue.pkl

budgetVars == <<total_photons_arrived, num_dark_counts, shots>>
rawVars == <<alice_bases, bob_bases, insert_indices, origin, pre_injection>>
keyVars == <<alice_bitstring, bob_bitstring>>
siftVars == <<mismatched_indices, sifted_key_length>>
qberVars == <<string_to_estimate_qber, indices_to_estimate_qber, estimated_qber>>
reconVars == <<reconciled_key, efficiency, ask_bits, reply_bits>>
verifyVars == <<compare_hash_length, seed_val, compare_key>>
rateVars == <<safe_key_perc, final_results>>
meterVars == <<total_uplink_data, total_downlink_data>>
sessionVars == <<pc, config, budgetVars, rawVars, keyVars, siftVars, qberVars,
                 reconVars, verifyVars, rateVars, meterVars, records, stages, error,
                 adapter_error>>
poolVars == <<futures, completed, pool>>
libVars == <<raised, poolVars>>
guiVars == <<run_button, workers, output_box, error_dialog>>
eduVars == <<ground, satellite, to_ground, to_satellite, queue_pkl>>
appVars == <<guiVars, eduVars>>
callVars == <<fn, args, fn_pc, sim, get_outcome, ret, libVars, appVars>>
vars == <<sessionVars, callVars>>

(***************************************************************************)
(* Program constants.                                                      *)
(***************************************************************************)
int_size_bits == 32
float_size_bits == 32

BIT_CHOICES == {"0", "1"}
BASE_CHOICES == {"Z", "X"}

(***************************************************************************)
(* Sequence helpers (Python list and str operations).                      *)
(***************************************************************************)
Min(a, b) == IF a <= b THEN a ELSE b
Max(a, b) == IF a >= b THEN a ELSE b

\* s * k for a str or list s
RECURSIVE Repeat(_, _)
Repeat(s, k) == IF k <= 0 THEN <<>> ELSE s \o Repeat(s, k - 1)

\* sorted(S) for a set of integers
RECURSIVE Sorted(_)
Sorted(S) ==
    IF S = {} THEN <<>>
    ELSE LET m == CHOOSE x \in S : \A y \in S : x <= y
         IN <<m>> \o Sorted(S \ {m})

\* the set of elements of a sequence
Range(s) == {s[i] : i \in 1..Len(s)}

\* the subsequence of s at the 1-based positions satisfying Keep
RECURSIVE FilterPos(_, _, _)
FilterPos(s, drop, i) ==
    IF i > Len(s) THEN <<>>
    ELSE (IF (i - 1) \in drop THEN <<>> ELSE <<s[i]>>) \o FilterPos(s, drop, i + 1)

\* list.insert(idx, x), idx >= 0: an index past the end appends
PyInsert(s, idx, x) ==
    LET i == Min(idx, Len(s))
    IN SubSeq(s, 1, i) \o <<x>> \o SubSeq(s, i + 1, Len(s))

\* int(bit) for a character of a key
ToInt(b) == IF b = "1" THEN 1 ELSE 0

\* [int(bit) for bit in key] for a str key
IntList(key) == [i \in 1..Len(key) |-> ToInt(key[i])]

\* A list of key bits is held as its int elements followed by the characters
\* appended to it in place: [bits |-> <<1, 0>>, pad |-> <<"0">>] is [1, 0, '0'].
ListOf(ints) == [bits |-> ints, pad |-> <<>>]
ListLen(l) == Len(l.bits) + Len(l.pad)
\* [int(bit) for bit in key] for a list key
ListInts(l) == l.bits \o IntList(l.pad)

RECURSIVE SumTo(_, _)
\* sum(f(j) for j in 1..n)
SumTo(f, n) == IF n = 0 THEN 0 ELSE f[n] + SumTo(f, n - 1)

\* s[::-1]
Reverse(s) == [i \in 1..Len(s) |-> s[Len(s) + 1 - i]]

(***************************************************************************)
(* Channel simulator (src/utils/qkd_protocols.py).  A result is the tuple  *)
(* <<alice_bitstring, alice_bases, bob_bases, bob_bitstring>>.             *)
(***************************************************************************)
\* random_bitstring(n), random_base_string(n): every string of length n
random_bitstring(n) == [1..n -> BIT_CHOICES]
random_base_string(n) == [1..n -> BASE_CHOICES]

\* The depolarizing error is attached to the "h" and "x" gates: qubit i can be
\* disturbed only when error_rate > 0 and encode or measure put a gate on it.
\* Noisy with the gates disturbed whatever the error rate
Noisy_AtAnyRate(bits, abases, bbases, error_rate, i) ==
    bits[i] = "1" \/ abases[i] = "X" \/ bbases[i] = "X"

Noisy(bits, abases, bbases, error_rate, i) ==
    /\ error_rate > 0
    /\ (bits[i] = "1" \/ abases[i] = "X" \/ bbases[i] = "X")

\* One entry of result.get_memory(): the simulator writes qubit 0 last.  A
\* qubit measured in the basis it was prepared in, undisturbed, gives the bit
\* sent; any other measurement can give either outcome.
AerMemory(bits, abases, bbases, error_rate) ==
    LET n == Len(bits)
    IN {m \in [1..n -> BIT_CHOICES] :
          \A i \in 1..n :
             (abases[i] = bbases[i] /\ ~Noisy(bits, abases, bbases, error_rate, i))
                => m[n + 1 - i] = bits[i]}

\* measure(): the shots' memory strings, each reversed, joined in shot order
RECURSIVE measure(_, _, _, _, _)
measure(bits, abases, bbases, error_rate, shots_) ==
    IF shots_ <= 0 THEN {<<>>}
    ELSE {Reverse(m) \o rest :
            m \in AerMemory(bits, abases, bbases, error_rate),
            rest \in measure(bits, abases, bbases, error_rate, shots_ - 1)}

\* simulate_bb84 returning Alice's bitstring of one shot
simulate_bb84_OneShotBits(N, error_rate, shots_) ==
    UNION {
      {<<ab, Repeat(abas, shots_), Repeat(bbas, shots_), bob>> :
          bob \in measure(ab, abas, bbas, error_rate, shots_)} :
      ab \in random_bitstring(N),
      abas \in random_base_string(N),
      bbas \in random_base_string(N)}

simulate_bb84(N, error_rate, shots_) ==
    UNION {
      {<<Repeat(ab, shots_), Repeat(abas, shots_), Repeat(bbas, shots_), bob>> :
          bob \in measure(ab, abas, bbas, error_rate, shots_)} :
      ab \in random_bitstring(N),
      abas \in random_base_string(N),
      bbas \in random_base_string(N)}

Concat4(r, b) == [n \in 1..4 |-> r[n] \o b[n]]
Empty4 == <<<<>>, <<>>, <<>>, <<>>>>

\* The batch results gathered in submission order and chained together.
RECURSIVE GatherBatches(_, _, _, _)
GatherBatches(N, repetitions, error_rate, shots_) ==
    IF repetitions <= 0 THEN {Empty4}
    ELSE {Concat4(r, b) :
            r \in GatherBatches(N, repetitions - 1, error_rate, shots_),
            b \in simulate_bb84(N, error_rate, shots_)}

parallel_bb84_simulation(repetitions, error_rate, shots_) ==
    GatherBatches(BatchSize, repetitions, error_rate, shots_)

\* random.sample(range(n), k) as a set: every k-subset of 0..n-1
Samples(n, k) == {S \in SUBSET (0..(n - 1)) : Cardinality(S) = k}

\* the four random.choice draws of one inserted entry
DarkEntries == BIT_CHOICES \X BASE_CHOICES \X BASE_CHOICES \X BIT_CHOICES

\* InjectStep with Bob's bit appended instead of inserted at idx
InjectStep_AppendBobBit(lists, idx, entry) ==
    [n \in 1..4 |-> IF n = 4 THEN Append(lists[n], entry[n])
                    ELSE PyInsert(lists[n], idx, entry[n])]

\* one pass of the insertion loop: the same idx for the four lists
InjectStep(lists, idx, entry) == [n \in 1..4 |-> PyInsert(lists[n], idx, entry[n])]

\* for idx in reversed(insert_indices): ...   (j runs from the last index down)
RECURSIVE InjectDark(_, _, _, _)
InjectDark(lists, idxs, entries, j) ==
    IF j = 0 THEN lists
    ELSE InjectDark(InjectStep(lists, idxs[j], entries[j]), idxs, entries, j - 1)

\* Where each element of a list comes from: i for element i of the
\* concatenation, 0 for an inserted entry.
OriginOf(lists) == [n \in 1..4 |-> [i \in 1..Len(lists[n]) |-> i]]
NoOrigin == <<0, 0, 0, 0>>

\* The injection of num_dark entries into the concatenation `lists`: the joined
\* strings returned, with the sampled indices and the origin of every element.
DarkInjections(lists, num_dark) ==
    {[ret |-> InjectDark(lists, Sorted(S), entries, num_dark),
      pre |-> lists,
      idxs |-> Sorted(S),
      origin |-> InjectDark(OriginOf(lists), Sorted(S),
                            [j \in 1..num_dark |-> NoOrigin], num_dark)] :
        S \in Samples(Len(lists[1]) + num_dark, num_dark),
        entries \in [1..num_dark -> DarkEntries]}

\* Both gather the batches (GatherBatches, chosen by the caller's step as
\* `lists`), chain them and inject the dark counts: the results the random
\* draws can produce from the gathered lists.
parallel_decoy_simulation(lists, num_dark) == DarkInjections(lists, num_dark)

simulate_with_timeout(lists, num_dark) == DarkInjections(lists, num_dark)

(***************************************************************************)
(* Sifting and parameter estimation.                                       *)
(***************************************************************************)
\* get_mismatched_indices: the ValueError guard, then the differing positions
BasesComparable(a, b) == Len(a) = Len(b)
\* get_mismatched_indices comparing the two strings from their second element on
get_mismatched_indices_SkipFirst(a, b) ==
    Sorted({i \in 1..(Len(a) - 1) : a[i + 1] # b[i + 1]})

get_mismatched_indices(a, b) ==
    Sorted({i \in 0..(Len(a) - 1) : a[i + 1] # b[i + 1]})

\* the range check of discard_bits taking a negative index from the end
IndicesInRange_FromTheEnd(bitstring, indices) ==
    \A i \in Range(indices) : (0 - Len(bitstring)) <= i /\ i < Len(bitstring)

\* discard_bits: the range check, then the survivors in order
IndicesInRange(bitstring, indices) ==
    \A i \in Range(indices) : 0 <= i /\ i < Len(bitstring)

\* discard_bits dropping only the first listed position
discard_bits_FirstIndexOnly(bitstring, indices) ==
    FilterPos(bitstring, IF indices = <<>> THEN {} ELSE {indices[1]}, 1)

discard_bits(bitstring, indices) == FilterPos(bitstring, Range(indices), 1)

\* randomly_select_bits: percentage is held in percent (50 for 0.5)
\* NumBitsToSelect without the max(1, ...)
NumBitsToSelect_NoFloor(bitstring, percentage) ==
    (Len(bitstring) * percentage) \div 100

NumBitsToSelect(bitstring, percentage) ==
    Max(1, (Len(bitstring) * percentage) \div 100)
\* SelectBits reading the first bits of the key, not those at the chosen ones
SelectBits_FromStart(bitstring, chosen) == [k \in 1..Len(chosen) |-> bitstring[k]]
SelectBits(bitstring, chosen) == [k \in 1..Len(chosen) |-> bitstring[chosen[k] + 1]]

\* calculate_qber on equal-length strings: <<errors, len>> stands for
\* errors / len, and <<0, 1>> for the 0.0 of the empty input
\* the length check of calculate_qber placed after the empty-input shortcut
QberComparable_AfterShortcut(a, b) == Len(a) = 0 \/ Len(a) = Len(b)

QberComparable(a, b) == Len(a) = Len(b)
\* calculate_qber counting the positions where the two strings agree
calculate_qber_CountsAgreements(a, chosen, b) ==
    IF Len(a) = 0 THEN <<0, 1>>
    ELSE <<Cardinality({i \in 1..Len(a) : a[i] = b[i]}), Len(a)>>

calculate_qber(a, chosen, b) ==
    IF Len(a) = 0 THEN <<0, 1>>
    ELSE <<Cardinality({i \in 1..Len(a) : a[i] # b[i]}), Len(a)>>

(***************************************************************************)
(* Two-universal hashing (src/utils/privacy_amplification.py).  The matrix *)
(* products are those of the Toeplitz and Circulant extractors over GF(2). *)
(***************************************************************************)
IsPrime(p) == p >= 2 /\ \A d \in 2..(p - 1) : p % d # 0
\* next_prime(k): the smallest prime >= k
next_prime(k) == CHOOSE p \in k..(2 * k + 2) :
                    IsPrime(p) /\ \A q \in k..(p - 1) : ~IsPrime(q)

\* the random bit lists of a given length the model draws seeds from
SeedsOfLength(n) ==
    {[i \in 1..n |-> pat[((i - 1) % SeedPeriod) + 1]] :
        pat \in [1..SeedPeriod -> {0, 1}]}

\* both are given the reconciled key, a list
toeplitz_seed(key, output_length) == SeedsOfLength(ListLen(key) + output_length - 1)
\* circulant_seed taking the prime from len(key) instead of len(key) + 1
circulant_seed_FromKeyLength(key) == SeedsOfLength(next_prime(ListLen(key)))

circulant_seed(key) == SeedsOfLength(next_prime(ListLen(key) + 1))

\* Toeplitz(n, m).extract(bit_input, seed): row i of the matrix is the seed
\* window ending at i + n - 1
\* the hash is applied to bit_input = [int(bit) for bit in key]
ToeplitzExtract(x, output_length, seed) ==
    LET n == Len(x)
    IN [i \in 1..output_length |->
          SumTo([j \in 1..n |-> x[j] * seed[i - j + n]], n) % 2]

\* the padding made of '1' characters
CirculantPadding_Ones(key_length, seed) ==
    IF Len(seed) > key_length + 1
    THEN [i \in 1..(Len(seed) - key_length - 1) |-> "1"]
    ELSE <<>>

\* '0' * padding_length of circulant(): the characters added to the key
CirculantPadding(key_length, seed) ==
    IF Len(seed) > key_length + 1
    THEN [i \in 1..(Len(seed) - key_length - 1) |-> "0"]
    ELSE <<>>

\* Circulant(seed_length - 1, m).extract(input_bits, seed_bits): the first m
\* entries of the cyclic convolution of input_bits + [0] with the seed
CirculantExtract(input_bits, output_length, seed) ==
    LET x == input_bits \o <<0>>
        p == Len(seed)
    IN [i \in 1..Min(output_length, p) |->
          SumTo([j \in 1..p |-> x[j] * seed[((i - j) % p) + 1]], p) % 2]

\* toeplitz() and circulant() given a str key
toeplitz(key, output_length, seed) == ToeplitzExtract(IntList(key), output_length, seed)
circulant(key, output_length, seed) ==
    CirculantExtract(IntList(key \o CirculantPadding(Len(key), seed)),
                     output_length, seed)

\* toeplitz() and circulant() given a list key; `key += '0' * padding_length`
\* extends that list itself, which circulant_list_after gives
toeplitz_list(key, output_length, seed) ==
    ToeplitzExtract(ListInts(key), output_length, seed)
circulant_list_after(key, seed) ==
    [key EXCEPT !.pad = @ \o CirculantPadding(ListLen(key), seed)]
circulant_list(key, output_length, seed) ==
    CirculantExtract(ListInts(circulant_list_after(key, seed)), output_length, seed)

\* math.ceil(a / b) for positive integers
CeilDiv(a, b) == (a + b - 1) \div b

\* 1 / ((1/4) * 1e-10) = 2^EpsPow2 * 10^EpsPow10
EpsPow2 == 2
EpsPow10 == 10
\* logarithms in millionths
MICRO == 1000000
LN2_MICRO == 693147
LN10_MICRO == 2302585
LOG2_10_MICRO == 3321928

\* math.log(x): the natural logarithm of x = 2^a * 10^b, in millionths
MathLog(a, b) == a * LN2_MICRO + b * LN10_MICRO
\* log2 of the same x, in millionths
Log2(a, b) == a * MICRO + b * LOG2_10_MICRO

\* compare_hash_length = math.ceil(math.log(1 / ((1/4)*1e-10)))
CompareHashLength == CeilDiv(MathLog(EpsPow2, EpsPow10), MICRO)

\* CompareKey with Bob's uncorrected key hashed in place of the reference
CompareKey_BobAsReference(family, reconciled, reference, m, seed) ==
    IF family = "toeplitz"
    THEN toeplitz_list(reconciled, m, seed) = toeplitz(bob_bitstring, m, seed)
    ELSE circulant_list(reconciled, m, seed) = circulant(bob_bitstring, m, seed)

\* compare_key: both hashes under the same family, length and seed
CompareKey(family, reconciled, reference, m, seed) ==
    IF family = "toeplitz"
    THEN toeplitz_list(reconciled, m, seed) = toeplitz(reference, m, seed)
    ELSE circulant_list(reconciled, m, seed) = circulant(reference, m, seed)

(***************************************************************************)
(* External collaborators of the session.                                  *)
(***************************************************************************)
\* efficiencies the reconciliation reports, in tenths (9 is 0.9)
EfficiencyReports == {9, 12}
\* the 1 of max(efficiency, 1), in tenths
EfficiencyOne == 10

\* cascade(): what a successful reconciliation can return; the reconciled key
\* is Bob's key, corrected to Alice's or left as it was
cascade(alice, bob) ==
    {[key |-> k, efficiency |-> e, ask |-> a, reply |-> r] :
        k \in {alice, bob}, e \in EfficiencyReports,
        a \in 0..MaxParity, r \in 0..MaxParity}

\* secure-key fractions bb84_key_rate / decoy_key_rate can return
KeyRates == {0, 1}

(***************************************************************************)
(* Initial values.                                                         *)
(***************************************************************************)
Configs ==
    [qkd_protocol : {"bb84", "decoy_state"},
     depolarization_error : {0, 1},
     percentage_estimate_qber : {50, 100},
     two_universal : {"toeplitz", "circulant"}]

NoConfig == [qkd_protocol |-> "none", depolarization_error |-> 0,
             percentage_estimate_qber |-> 100, two_universal |-> "none"]
NoArgs == [circuit |-> 0, repetitions |-> 0, error |-> 0, num_dark |-> 0, shots |-> 0]
NoSim == [ret |-> Empty4, pre |-> Empty4, idxs |-> <<>>, origin |-> Empty4]

\* the locals of run_qkd_simulation before its first statement
SessionStart ==
    /\ total_photons_arrived = 0 /\ num_dark_counts = 0 /\ shots = 0
    /\ alice_bitstring = <<>> /\ alice_bases = <<>>
    /\ bob_bases = <<>> /\ bob_bitstring = <<>>
    /\ insert_indices = <<>> /\ origin = Empty4 /\ pre_injection = Empty4
    /\ mismatched_indices = <<>> /\ sifted_key_length = 0
    /\ string_to_estimate_qber = <<>> /\ indices_to_estimate_qber = <<>>
    /\ estimated_qber = <<>>
    /\ reconciled_key = ListOf(<<>>) /\ efficiency = 0 /\ ask_bits = 0 /\ reply_bits = 0
    /\ compare_hash_length = 0 /\ seed_val = <<>> /\ compare_key = "unset"
    /\ safe_key_perc = -1 /\ final_results = <<>>
    /\ total_uplink_data = 0 /\ total_downlink_data = 0
    /\ records = <<>> /\ stages = <<>> /\ error = "none" /\ adapter_error = "none"

LibIdle == raised = "none" /\ futures = <<>> /\ completed = <<>> /\ pool = <<>>

\* main.py:733: the window as built, no run started
GuiIdle ==
    /\ run_button = "normal" /\ workers = 0
    /\ output_box = <<>> /\ error_dialog = FALSE

\* the module variables of the two scripts before their first statement
GroundStart ==
    [pc |-> "off", ground_bases |-> <<>>, measured |-> <<>>,
     ground_bitstring |-> <<>>, mismatched_indices |-> <<>>,
     string_to_estimate_qber |-> <<>>, indices_to_estimate_qber |-> <<>>,
     qber |-> <<>>, error |-> "none"]
SatelliteStart ==
    [pc |-> "off", satellite_bases |-> <<>>, sent |-> <<>>,
     satellite_bitstring |-> <<>>,
     mismatched_indices |-> <<>>, data |-> <<>>,
     indices_to_estimate_qber |-> <<>>, qber |-> <<>>, error |-> "none"]
NoFile == [exists |-> FALSE, circuit |-> <<>>]

\* neither script is running
EduIdle ==
    /\ ground = GroundStart /\ satellite = SatelliteStart
    /\ to_ground = <<>> /\ to_satellite = <<>> /\ queue_pkl = NoFile
AppIdle == GuiIdle /\ EduIdle

CallIdle ==
    /\ fn = "none" /\ args = NoArgs /\ fn_pc = "idle" /\ sim = NoSim
    /\ get_outcome = "none" /\ ret = Empty4
    /\ LibIdle
    /\ AppIdle

Init ==
    /\ pc = "PassDetails"
    /\ config \in Configs
    /\ SessionStart
    /\ CallIdle

(***************************************************************************)
(* run_qkd_simulation, one action per stage between two points where the   *)
(* generator can stop.                                                     *)
(***************************************************************************)
Yield(label) == records' = Append(records, label)
Enter(stage) == stages' = Append(stages, stage)

\* the generator has ended
Terminal == pc \in {"Completed", "Aborted"}

\* an exception leaves the generator: nothing more is yielded
Raise(exc) == /\ pc' = "Aborted" /\ error' = exc /\ UNCHANGED records

\* core.py:18-99
PassDetails ==
    /\ pc = "PassDetails"
    /\ Yield("SATELLITE PASS DETAILS")
    /\ pc' = "SatCoords"
    /\ UNCHANGED <<config, budgetVars, rawVars, keyVars, siftVars, qberVars,
                   reconVars, verifyVars, rateVars, meterVars, stages, error, callVars,
                   adapter_error>>

\* core.py:101-144
SatCoords ==
    /\ pc = "SatCoords"
    /\ Yield("sat_coords")
    /\ pc' = "PhotonStats"
    /\ UNCHANGED <<config, budgetVars, rawVars, keyVars, siftVars, qberVars,
                   reconVars, verifyVars, rateVars, meterVars, stages, error, callVars,
                   adapter_error>>

\* repetitions of the channel simulation: total_photons_arrived // (500 * shots)
Repetitions(total, shots_) == total \div (BatchSize * shots_)

\* core.py:145-167: the link budget fixes the photons that arrive, shots and
\* the dark counts, which the decoy variant adds to total_photons_arrived
PhotonStats ==
    /\ pc = "PhotonStats"
    /\ \E arrived \in 0..MaxPhotons, s \in 1..MaxShots, dark \in 0..MaxDark :
          LET nd == IF config.qkd_protocol = "decoy_state" THEN dark ELSE 0
              total == arrived + nd
          IN /\ (config.qkd_protocol # "decoy_state") => dark = 0
             /\ Repetitions(total, s) * BatchSize * s + nd <= MaxRaw
             /\ total_photons_arrived' = total
             /\ shots' = s
             /\ num_dark_counts' = nd
    /\ Yield("PHOTON TRANSMISSION STATS")
    /\ pc' = "Simulate"
    /\ UNCHANGED <<config, rawVars, keyVars, siftVars, qberVars,
                   reconVars, verifyVars, rateVars, meterVars, stages, error, callVars,
                   adapter_error>>

\* core.py:169-172
Simulate ==
    /\ pc = "Simulate"
    /\ Enter("Simulate")
    /\ LET reps == Repetitions(total_photons_arrived, shots)
       IN IF config.qkd_protocol = "decoy_state"
          THEN \E lists \in GatherBatches(
                              BatchSize, reps, config.depolarization_error,
                              shots) :
               \E o \in parallel_decoy_simulation(lists, num_dark_counts) :
                  /\ alice_bitstring' = o.ret[1]
                  /\ alice_bases' = o.ret[2]
                  /\ bob_bases' = o.ret[3]
                  /\ bob_bitstring' = o.ret[4]
                  /\ insert_indices' = o.idxs
                  /\ origin' = o.origin
                  /\ pre_injection' = o.pre
          ELSE \E r \in parallel_bb84_simulation(
                          reps, config.depolarization_error, shots) :
                  /\ alice_bitstring' = r[1]
                  /\ alice_bases' = r[2]
                  /\ bob_bases' = r[3]
                  /\ bob_bitstring' = r[4]
                  /\ insert_indices' = <<>>
                  /\ origin' = OriginOf(r)
                  /\ pre_injection' = r
    /\ pc' = "Sift"
    /\ UNCHANGED <<config, budgetVars, siftVars, qberVars, reconVars, verifyVars,
                   rateVars, meterVars, records, error, callVars,
                   adapter_error>>

\* core.py:175-186
Sift ==
    /\ pc = "Sift"
    /\ Enter("Sift")
    /\ IF ~BasesComparable(alice_bases, bob_bases)
       THEN /\ Raise("ValueError")
            /\ UNCHANGED <<keyVars, siftVars>>
       ELSE LET mm == get_mismatched_indices(alice_bases, bob_bases)
            IN IF ~IndicesInRange(alice_bitstring, mm)
               THEN /\ Raise("ValueError")
                    /\ mismatched_indices' = mm
                    /\ UNCHANGED <<keyVars, sifted_key_length>>
               ELSE IF ~IndicesInRange(bob_bitstring, mm)
               THEN /\ Raise("ValueError")
                    /\ mismatched_indices' = mm
                    /\ alice_bitstring' = discard_bits(alice_bitstring, mm)
                    /\ UNCHANGED <<bob_bitstring, sifted_key_length>>
               ELSE /\ mismatched_indices' = mm
                    /\ alice_bitstring' = discard_bits(alice_bitstring, mm)
                    /\ bob_bitstring' = discard_bits(bob_bitstring, mm)
                    /\ sifted_key_length' = Len(discard_bits(alice_bitstring, mm))
                    /\ Yield("BASIS RECONCILIATION")
                    /\ pc' = "EstimateQBER"
                    /\ UNCHANGED error
    /\ UNCHANGED <<config, budgetVars, rawVars, qberVars, reconVars, verifyVars,
                   rateVars, meterVars, callVars,
                   adapter_error>>

\* the classical-channel charges of the stages
ChargeBases(uplink, bases) == uplink + Len(bases)                   \* core.py:188
ChargeMismatched(downlink, mm) == downlink + Len(mm) * int_size_bits   \* :189
ChargeSample(downlink, str, idxs) ==                                \* :197-198
    downlink + Len(str) + Len(idxs) * int_size_bits
ChargeQber(uplink) == uplink + float_size_bits                      \* :199
ChargeAsk(downlink, ask) == downlink + ask                          \* :219
ChargeReply_Minus(uplink, reply) == uplink - reply      \* -= for +=
ChargeReply(uplink, reply) == uplink + reply                        \* :220
ChargeSeed_Free(downlink, seed) == downlink     \* the seed not charged
ChargeSeed(downlink, seed) == downlink + Len(seed)                  \* :232

\* core.py:188-208
EstimateQBER ==
    /\ pc = "EstimateQBER"
    /\ Enter("EstimateQBER")
    /\ LET up == ChargeBases(total_uplink_data, alice_bases)
           down == ChargeMismatched(total_downlink_data, mismatched_indices)
           num == NumBitsToSelect(alice_bitstring, config.percentage_estimate_qber)
       IN IF num > Len(alice_bitstring)
          THEN \* random.sample: sample larger than population
               /\ Raise("ValueError")
               /\ total_uplink_data' = up
               /\ total_downlink_data' = down
               /\ UNCHANGED <<keyVars, qberVars>>
          ELSE \E S \in Samples(Len(alice_bitstring), num) :
                 LET chosen == Sorted(S)
                     str == SelectBits(alice_bitstring, chosen)
                     bobstr == SelectBits(bob_bitstring, chosen)
                 IN /\ string_to_estimate_qber' = str
                    /\ indices_to_estimate_qber' = chosen
                    /\ estimated_qber' = calculate_qber(bobstr, chosen, str)
                    /\ alice_bitstring' = discard_bits(alice_bitstring, chosen)
                    /\ bob_bitstring' = discard_bits(bob_bitstring, chosen)
                    /\ total_downlink_data' = ChargeSample(down, str, chosen)
                    /\ total_uplink_data' = ChargeQber(up)
                    /\ Yield("QBER ESTIMATION")
                    /\ pc' = "Reconcile"
                    /\ UNCHANGED error
    /\ UNCHANGED <<config, budgetVars, rawVars, siftVars, reconVars, verifyVars,
                   rateVars, callVars,
                   adapter_error>>

\* core.py:211-220, cascade returning
Reconcile ==
    /\ pc = "Reconcile"
    /\ Enter("Reconcile")
    /\ \E o \in cascade(alice_bitstring, bob_bitstring) :
          /\ efficiency' = Max(o.efficiency, EfficiencyOne)
          /\ reconciled_key' = ListOf(IntList(o.key))
          /\ ask_bits' = o.ask
          /\ reply_bits' = o.reply
          /\ total_downlink_data' = ChargeAsk(total_downlink_data, o.ask)
          /\ total_uplink_data' = ChargeReply(total_uplink_data, o.reply)
    /\ pc' = "Verify"
    /\ UNCHANGED <<config, budgetVars, rawVars, keyVars, siftVars, qberVars,
                   verifyVars, rateVars, records, error, callVars,
                   adapter_error>>

\* ReconcileFails swallowing the exception: Bob's key and efficiency 1 stand in
ReconcileFails_Fallback ==
    /\ pc = "Reconcile"
    /\ Enter("Reconcile")
    /\ adapter_error' = "cascade"
    /\ efficiency' = EfficiencyOne
    /\ reconciled_key' = ListOf(IntList(bob_bitstring))
    /\ pc' = "Verify"
    /\ UNCHANGED <<config, budgetVars, rawVars, keyVars, siftVars, qberVars,
                   ask_bits, reply_bits, verifyVars, rateVars, meterVars, records,
                   error, callVars>>

\* core.py:211 with error_correction.py:44-45: cascade raising
ReconcileFails ==
    /\ pc = "Reconcile"
    /\ Enter("Reconcile")
    /\ adapter_error' = "cascade"
    /\ Raise("[Cascade Error] Failed to reconcile keys")
    /\ UNCHANGED <<config, budgetVars, rawVars, keyVars, siftVars, qberVars,
                   reconVars, verifyVars, rateVars, meterVars, callVars>>

\* GateDecision with the raise left out: the session goes on whatever ck is
GateDecision_NoRaise(ck) ==
    /\ Yield("ERROR CORRECTION")
    /\ pc' = "EstimateKeyRate"
    /\ UNCHANGED error

\* core.py:234-244: the gate raises on a mismatch, else the session goes on
GateDecision(ck) ==
    IF ~ck
    THEN Raise("Protocol aborted: error correction verification failed")
    ELSE /\ Yield("ERROR CORRECTION")
         /\ pc' = "EstimateKeyRate"
         /\ UNCHANGED error

\* core.py:222-244.  circulant() pads the list it is given in place.
Verify ==
    /\ pc = "Verify"
    /\ Enter("Verify")
    /\ compare_hash_length' = CompareHashLength
    /\ \E seed \in (IF config.two_universal = "toeplitz"
                    THEN toeplitz_seed(reconciled_key, CompareHashLength)
                    ELSE circulant_seed(reconciled_key)) :
          LET ck == CompareKey(config.two_universal, reconciled_key,
                               alice_bitstring, CompareHashLength, seed)
          IN /\ seed_val' = seed
             /\ compare_key' = IF ck THEN "True" ELSE "False"
             /\ reconciled_key' = IF config.two_universal = "toeplitz"
                                  THEN reconciled_key
                                  ELSE circulant_list_after(reconciled_key, seed)
             /\ total_downlink_data' = ChargeSeed(total_downlink_data, seed)
             /\ GateDecision(ck)
    /\ UNCHANGED <<config, budgetVars, rawVars, keyVars, siftVars, qberVars,
                   efficiency, ask_bits, reply_bits, rateVars, total_uplink_data,
                   callVars,
                   adapter_error>>

\* core.py:246-258, the estimator returning
EstimateKeyRate ==
    /\ pc = "EstimateKeyRate"
    /\ Enter("EstimateKeyRate")
    /\ \E r \in KeyRates : safe_key_perc' = r
    /\ pc' = "Report"
    /\ UNCHANGED <<config, budgetVars, rawVars, keyVars, siftVars, qberVars,
                   reconVars, verifyVars, final_results, meterVars, records, error,
                   callVars,
                   adapter_error>>

\* core.py:246-258 with key_rate.py:63-64, 148-149: the estimator raising
EstimateKeyRateFails ==
    /\ pc = "EstimateKeyRate"
    /\ Enter("EstimateKeyRate")
    /\ adapter_error' = "key_rate"
    /\ Raise("Failed to compute key rate")
    /\ UNCHANGED <<config, budgetVars, rawVars, keyVars, siftVars, qberVars,
                   reconVars, verifyVars, rateVars, meterVars, callVars>>

\* Report without its yield
Report_NoYield ==
    /\ pc = "Report"
    /\ Enter("Report")
    /\ final_results' = [secure_key |-> safe_key_perc,
                         uplink |-> total_uplink_data,
                         downlink |-> total_downlink_data]
    /\ pc' = "Complete"
    /\ UNCHANGED <<config, budgetVars, rawVars, keyVars, siftVars, qberVars,
                   reconVars, verifyVars, safe_key_perc, meterVars, records, error,
                   callVars,
                   adapter_error>>

\* core.py:260-274.  The secure-key count printed is safe_key_perc times the
\* link budget's total_photons_sent; the record keeps the fraction.
Report ==
    /\ pc = "Report"
    /\ Enter("Report")
    /\ final_results' = [secure_key |-> safe_key_perc,
                         uplink |-> total_uplink_data,
                         downlink |-> total_downlink_data]
    /\ Yield("FINAL RESULTS")
    /\ pc' = "Complete"
    /\ UNCHANGED <<config, budgetVars, rawVars, keyVars, siftVars, qberVars,
                   reconVars, verifyVars, safe_key_perc, meterVars, error, callVars,
                   adapter_error>>

\* core.py:276
Complete ==
    /\ pc = "Complete"
    /\ Yield("QKD Simulation Complete")
    /\ pc' = "Return"
    /\ UNCHANGED <<config, budgetVars, rawVars, keyVars, siftVars, qberVars,
                   reconVars, verifyVars, rateVars, meterVars, stages, error, callVars,
                   adapter_error>>

\* the generator's body ends: the stream is exhausted
Return ==
    /\ pc = "Return"
    /\ pc' = "Completed"
    /\ UNCHANGED <<config, budgetVars, rawVars, keyVars, siftVars, qberVars,
                   reconVars, verifyVars, rateVars, meterVars, records, stages, error,
                   callVars,
                   adapter_error>>

Next ==
    \/ PassDetails \/ SatCoords \/ PhotonStats
    \/ Simulate \/ Sift \/ EstimateQBER
    \/ Reconcile \/ ReconcileFails
    \/ Verify
    \/ EstimateKeyRate \/ EstimateKeyRateFails
    \/ Report \/ Complete \/ Return

Spec == Init /\ [][Next]_vars

(***************************************************************************)
(* Direct calls of the decoy simulators (src/utils/qkd_protocols.py).      *)
(***************************************************************************)
\* the arguments of a call, small enough to enumerate every result
CallArgs ==
    {a \in [circuit : 1..MaxDecoyLen, repetitions : 0..MaxReps, error : {0, 1},
            num_dark : 0..MaxDecoyLen, shots : 1..MaxShots] :
        a.circuit * a.repetitions * a.shots + a.num_dark <= MaxDecoyLen}

InitCall ==
    /\ pc = "NoSession"
    /\ config = NoConfig
    /\ SessionStart
    /\ fn = "none" /\ fn_pc = "idle" /\ sim = NoSim
    /\ get_outcome = "none" /\ ret = Empty4
    /\ LibIdle
    /\ AppIdle
    /\ args \in CallArgs

\* parallel_decoy_simulation(circuit, repetitions, error, num_dark, shots)
CallParallelDecoy ==
    /\ fn_pc = "idle"
    /\ \E lists \in GatherBatches(args.circuit, args.repetitions,
                                  args.error, args.shots) :
          \E o \in parallel_decoy_simulation(lists, args.num_dark) :
             sim' = o /\ ret' = o.ret
    /\ fn' = "parallel_decoy_simulation"
    /\ fn_pc' = "returned"
    /\ UNCHANGED <<sessionVars, appVars, libVars, args, get_outcome>>

\* bench_parallel_decoy_simulation, lines 334-335: the pool is created and
\* simulate_with_timeout handed to it
BenchStart ==
    /\ fn_pc = "idle"
    /\ fn' = "bench_parallel_decoy_simulation"
    /\ fn_pc' = "waiting"
    /\ pool' = <<"Pool", "apply_async">>
    /\ UNCHANGED <<sessionVars, appVars, raised, futures, completed, args, sim, get_outcome, ret>>

\* the pool's worker finishes simulate_with_timeout before the timeout
WorkerReturns ==
    /\ fn_pc = "waiting"
    /\ \E lists \in GatherBatches(args.circuit, args.repetitions,
                                  args.error, args.shots) :
          \E o \in simulate_with_timeout(lists, args.num_dark) :
             sim' = o
    /\ fn_pc' = "ready"
    /\ UNCHANGED <<sessionVars, appVars, libVars, fn, args, get_outcome, ret>>

\* the pool's worker ends simulate_with_timeout with an exception
WorkerRaises ==
    /\ fn_pc = "waiting"
    /\ fn_pc' = "failed"
    /\ UNCHANGED <<sessionVars, appVars, libVars, fn, args, sim, get_outcome, ret>>

\* What the try statement of lines 337-346 returns.  `pending` is the value
\* the try or except clause is about to return; the return of the finally
\* clause replaces it, and discards an exception in flight.
BenchReturn(pending) == Empty4

\* the finally clause with the teardown moved to the end of the try clause,
\* where only a returned value reaches it
PoolTeardown_InTryClause(calls, outcome) ==
    IF outcome = "value" THEN calls \o <<"close", "terminate", "join">> ELSE calls

\* the finally clause, lines 342-345, run whatever result.get did
PoolTeardown(calls, outcome) == calls \o <<"close", "terminate", "join">>

\* result.get(timeout) returns the worker's tuple
BenchGet ==
    /\ fn_pc = "ready"
    /\ get_outcome' = "value"
    /\ ret' = BenchReturn(sim.ret)
    /\ fn_pc' = "returned"
    /\ pool' = PoolTeardown(pool, get_outcome')
    /\ UNCHANGED <<sessionVars, appVars, raised, futures, completed, fn, args, sim>>

\* result.get(timeout) raises multiprocessing.TimeoutError
BenchTimeout ==
    /\ fn_pc = "waiting"
    /\ get_outcome' = "timeout"
    /\ ret' = BenchReturn(Empty4)
    /\ fn_pc' = "returned"
    /\ pool' = PoolTeardown(pool, get_outcome')
    /\ UNCHANGED <<sessionVars, appVars, raised, futures, completed, fn, args, sim>>

\* result.get(timeout) re-raises the worker's exception
BenchGetRaises ==
    /\ fn_pc = "failed"
    /\ get_outcome' = "exception"
    /\ ret' = BenchReturn(Empty4)
    /\ fn_pc' = "returned"
    /\ pool' = PoolTeardown(pool, get_outcome')
    /\ UNCHANGED <<sessionVars, appVars, raised, futures, completed, fn, args, sim>>

NextCall ==
    \/ CallParallelDecoy
    \/ BenchStart \/ WorkerReturns \/ WorkerRaises
    \/ BenchGet \/ BenchTimeout \/ BenchGetRaises

SpecCall == InitCall /\ [][NextCall]_vars

\* result.get(timeout=timeout) returns or raises once the worker is finished,
\* and raises TimeoutError when the timeout passes first: a call waiting in it
\* does not wait for ever
BenchFairness ==
    /\ WF_vars(BenchGet)
    /\ WF_vars(BenchGetRaises)
    /\ WF_vars(BenchTimeout)

SpecCallFair == SpecCall /\ BenchFairness

(***************************************************************************)
(* The worker pool of parallel_bb84_simulation and                         *)
(* parallel_decoy_simulation: the batches are submitted together, finish   *)
(* in any order, and their results are collected from the list of futures. *)
(***************************************************************************)
PoolNames == {"parallel_bb84_simulation", "parallel_decoy_simulation"}

\* parallel_bb84_simulation runs batches of 500 photons and injects nothing;
\* a pooled decoy call injects at most MaxDark entries
PoolArgs(f) ==
    IF f = "parallel_bb84_simulation"
    THEN {a \in CallArgs : a.circuit = BatchSize /\ a.num_dark = 0}
    ELSE {a \in CallArgs : a.num_dark <= MaxDark}

Pending == [done |-> FALSE, result |-> Empty4]
Done(result) == [done |-> TRUE, result |-> result]

InitPool ==
    /\ pc = "NoSession"
    /\ config = NoConfig
    /\ SessionStart
    /\ fn \in PoolNames
    /\ args \in PoolArgs(fn)
    /\ fn_pc = "idle" /\ sim = NoSim
    /\ get_outcome = "none" /\ ret = Empty4
    /\ LibIdle
    /\ AppIdle

\* pool.starmap(...) / [executor.submit(...) for _ in range(repetitions)]
Submit ==
    /\ fn_pc = "idle"
    /\ futures' = [k \in 1..args.repetitions |-> Pending]
    /\ fn_pc' = "running"
    /\ UNCHANGED <<sessionVars, appVars, fn, args, sim, get_outcome, ret, raised, completed, pool>>

\* a worker finishes simulate_bb84 for batch k
BatchFinishes(k) ==
    /\ fn_pc = "running"
    /\ ~futures[k].done
    /\ \E b \in simulate_bb84(args.circuit, args.error, args.shots) :
          futures' = [futures EXCEPT ![k] = Done(b)]
    /\ completed' = Append(completed, k)
    /\ UNCHANGED <<sessionVars, appVars, fn, args, fn_pc, sim, get_outcome, ret, raised, pool>>

\* the results chained in the order the batches finished
RECURSIVE GatherResults_AsCompleted(_, _)
GatherResults_AsCompleted(futs, finished) ==
    IF finished = <<>> THEN Empty4
    ELSE Concat4(GatherResults_AsCompleted(futs, SubSeq(finished, 1, Len(finished) - 1)),
                 futs[finished[Len(finished)]].result)

\* results = [f.result() for f in futures] (the list starmap returns), then
\* chain.from_iterable over results for each of the four sequences
RECURSIVE GatherResults(_, _)
GatherResults(futs, finished) ==
    IF futs = <<>> THEN Empty4
    ELSE Concat4(GatherResults(SubSeq(futs, 1, Len(futs) - 1), finished),
                 futs[Len(futs)].result)

\* the with block ends when every batch is done; the results are chained and,
\* in the decoy variant, the dark counts injected
Gather ==
    /\ fn_pc = "running"
    /\ \A k \in 1..Len(futures) : futures[k].done
    /\ LET lists == GatherResults(futures, completed)
       IN IF fn = "parallel_decoy_simulation"
          THEN \E o \in parallel_decoy_simulation(lists, args.num_dark) :
                  sim' = o /\ ret' = o.ret
          ELSE /\ sim' = [ret |-> lists, pre |-> lists, idxs |-> <<>>,
                          origin |-> OriginOf(lists)]
               /\ ret' = lists
    /\ fn_pc' = "returned"
    /\ UNCHANGED <<sessionVars, appVars, libVars, fn, args, get_outcome>>

NextPool ==
    \/ Submit
    \/ \E k \in 1..MaxReps : k <= Len(futures) /\ BatchFinishes(k)
    \/ Gather

SpecPool == InitPool /\ [][NextPool]_vars

(***************************************************************************)
(* Direct calls of the utility functions (src/utils): one call per         *)
(* behaviour, its arguments fixed at the start.                            *)
(***************************************************************************)
\* every str over the alphabet S of length at most n
Strings(S, n) == UNION {[1..k -> S] : k \in 0..n}

\* the index lists handed to discard_bits: out-of-range and repeated entries
\* included
IndexLists == UNION {[1..k -> (-1)..MaxUtilLen] : k \in 0..MaxIdxLen}

\* the percentage arguments of randomly_select_bits, in percent
Percentages == {25, 50, 75, 100}

\* encode(): the gates put on qubit i, <<x, h>>
EncodeComparable(bits, bases) == Len(bits) = Len(bases)
encode(bits, bases) ==
    [i \in 1..Len(bits) |-> <<bits[i] = "1", bases[i] = "X">>]

\* the first definitions of the two seed functions (lines 51-77), replaced at
\* import by those of lines 80-84
toeplitz_seed_shadowed(key, output_length) ==
    SeedsOfLength(ListLen(key) + output_length - 1)
circulant_seed_shadowed(key) == SeedsOfLength(next_prime(ListLen(key) + 1))

\* input_bits of circulant() (line 46): the key, padded, as ints
circulant_input_bits(k, seed) ==
    IF k.is_list
    THEN ListInts(circulant_list_after(k.key_list, seed))
    ELSE IntList(k.key_str \o CirculantPadding(Len(k.key_str), seed))

UtilNames ==
    {"randomly_select_bits", "discard_bits", "get_mismatched_indices",
     "calculate_qber", "encode", "toeplitz_seed", "circulant_seed",
     "toeplitz", "circulant"}

BitStrings == Strings(BIT_CHOICES, MaxUtilLen)
BaseStrings == Strings(BASE_CHOICES, MaxUtilLen)

\* the keys handed to toeplitz() and circulant(): a str of bits (the reference
\* key of core.py:226, 229) or a list of ints (the reconciled key of :217).
\* The argument is key_list when is_list, else key_str.
StrKeys == {[is_list |-> FALSE, key_str |-> k, key_list |-> ListOf(<<>>)] :
               k \in BitStrings}
ListKeys == {[is_list |-> TRUE, key_str |-> <<>>, key_list |-> ListOf(k)] :
                k \in Strings({0, 1}, MaxUtilLen)}
KeyLen(a) == IF a.is_list THEN ListLen(a.key_list) ELSE Len(a.key_str)

\* the calls of the verify stage: the seed is drawn for the key by the seed
\* function of the family (core.py:225, 228)
HashArgs(family) ==
    UNION {{[key |-> k, output_length |-> m, seed |-> sd] :
               sd \in SeedsOfLength(IF family = "toeplitz"
                                    THEN KeyLen(k) + m - 1
                                    ELSE next_prime(KeyLen(k) + 1))} :
           k \in StrKeys \cup ListKeys, m \in 1..MaxHashOut}

UtilArgs(f) ==
    CASE f = "randomly_select_bits" ->
            [bitstring : BitStrings, percentage : Percentages]
      [] f = "discard_bits" ->
            [bitstring : BitStrings, mismatched_indices : IndexLists]
      [] f = "get_mismatched_indices" ->
            [alice_bases : BaseStrings, bob_bases : BaseStrings]
      [] f = "calculate_qber" ->
            [alice_selected_bitstring : BitStrings,
             chosen_indices : {Sorted(S) : S \in SUBSET (0..(MaxIdxLen - 1))},
             bob_selected_bitstring : BitStrings]
      [] f = "encode" ->
            [bits : BitStrings, bases : BaseStrings]
      [] f = "toeplitz_seed" ->
            [key : {ListOf(k) : k \in Strings({0, 1}, MaxUtilLen)},
             output_length : 1..MaxHashOut]
      [] f = "circulant_seed" ->
            [key : {ListOf(k) : k \in Strings({0, 1}, MaxUtilLen)}]
      [] f = "toeplitz" -> HashArgs("toeplitz")
      [] f = "circulant" -> HashArgs("circulant")

InitUtil ==
    /\ pc = "NoSession"
    /\ config = NoConfig
    /\ SessionStart
    /\ fn \in UtilNames
    /\ args \in UtilArgs(fn)
    /\ fn_pc = "idle" /\ sim = NoSim
    /\ get_outcome = "none" /\ ret = Empty4
    /\ LibIdle
    /\ AppIdle

\* the call ends with a value, or with an exception and no value
Returns(value) == ret' = value /\ fn_pc' = "returned" /\ UNCHANGED raised
Raises(exc) == raised' = exc /\ fn_pc' = "raised" /\ UNCHANGED ret

UtilCall(f) ==
    /\ fn = f
    /\ fn_pc = "idle"
    /\ UNCHANGED <<sessionVars, appVars, poolVars, fn, args, sim, get_outcome>>

\* parameter_estimation.py:4-21
CallRandomlySelectBits ==
    /\ UtilCall("randomly_select_bits")
    /\ LET num == NumBitsToSelect(args.bitstring, args.percentage)
       IN IF num > Len(args.bitstring)
          THEN Raises("ValueError")   \* random.sample: larger than population
          ELSE \E S \in Samples(Len(args.bitstring), num) :
                  Returns(<<SelectBits(args.bitstring, Sorted(S)), Sorted(S)>>)

\* qkd_protocols.py:263-279
CallDiscardBits ==
    /\ UtilCall("discard_bits")
    /\ IF ~IndicesInRange(args.bitstring, args.mismatched_indices)
       THEN Raises("ValueError")
       ELSE Returns(discard_bits(args.bitstring, args.mismatched_indices))

\* qkd_protocols.py:231-261
CallGetMismatchedIndices ==
    /\ UtilCall("get_mismatched_indices")
    /\ IF ~BasesComparable(args.alice_bases, args.bob_bases)
       THEN Raises("ValueError")
       ELSE Returns(get_mismatched_indices(args.alice_bases, args.bob_bases))

\* parameter_estimation.py:23-57
CallCalculateQber ==
    /\ UtilCall("calculate_qber")
    /\ IF ~QberComparable(args.alice_selected_bitstring,
                          args.bob_selected_bitstring)
       THEN Raises("ValueError")
       ELSE Returns(calculate_qber(args.alice_selected_bitstring,
                                   args.chosen_indices,
                                   args.bob_selected_bitstring))

\* qkd_protocols.py:27-65
CallEncode ==
    /\ UtilCall("encode")
    /\ IF ~EncodeComparable(args.bits, args.bases)
       THEN Raises("ValueError")
       ELSE Returns(encode(args.bits, args.bases))

\* privacy_amplification.py:80-81
CallToeplitzSeed ==
    /\ UtilCall("toeplitz_seed")
    /\ \E seed \in toeplitz_seed(args.key, args.output_length) : Returns(seed)

\* privacy_amplification.py:83-84
CallCirculantSeed ==
    /\ UtilCall("circulant_seed")
    /\ \E seed \in circulant_seed(args.key) : Returns(seed)

\* a call of a hash function: sim holds, at its end, the key object of the
\* caller and the bits that were hashed
HashCall(f) ==
    /\ fn = f
    /\ fn_pc = "idle"
    /\ UNCHANGED <<sessionVars, appVars, poolVars, fn, args, get_outcome>>

\* privacy_amplification.py:7-22
CallToeplitz ==
    /\ HashCall("toeplitz")
    /\ LET k == args.key
           bit_input == IF k.is_list THEN ListInts(k.key_list)
                                     ELSE IntList(k.key_str)
       IN /\ sim' = [key |-> k, input_bits |-> bit_input]
          /\ Returns(IF k.is_list
                     THEN toeplitz_list(k.key_list, args.output_length, args.seed)
                     ELSE toeplitz(k.key_str, args.output_length, args.seed))

\* privacy_amplification.py:25-49: `alice_bitstring += '0' * padding_length`
\* rebinds the local name when the key is a str and extends the caller's
\* object when it is a list
CallCirculant ==
    /\ HashCall("circulant")
    /\ LET k == args.key
           after == [k EXCEPT !.key_list =
                        IF k.is_list THEN circulant_list_after(@, args.seed)
                                     ELSE @]
       IN /\ sim' = [key |-> after,
                     input_bits |-> circulant_input_bits(k, args.seed)]
          /\ Returns(IF k.is_list
                     THEN circulant_list(k.key_list, args.output_length, args.seed)
                     ELSE circulant(k.key_str, args.output_length, args.seed))

NextUtil ==
    \/ CallRandomlySelectBits
    \/ CallDiscardBits
    \/ CallGetMismatchedIndices
    \/ CallCalculateQber
    \/ CallEncode
    \/ CallToeplitzSeed
    \/ CallCirculantSeed
    \/ CallToeplitz
    \/ CallCirculant

SpecUtil == InitUtil /\ [][NextUtil]_vars

(***************************************************************************)
(* The desktop front end (src/simulator/main.py): the Run Simulation       *)
(* button, run_simulation() and the worker thread running task().  The     *)
(* worker iterates run_qkd_simulation: its steps are the session's.        *)
(***************************************************************************)
InitGui ==
    /\ pc = "NoSession"
    /\ config = NoConfig
    /\ SessionStart
    /\ CallIdle

\* run_button.configure(state=tk.DISABLED) left out
ButtonOnStart_LeftAsIs(state) == state
\* main.py:698
ButtonOnStart(state) == "disabled"

\* the locals of a fresh run_qkd_simulation(config) generator
FreshSession ==
    /\ pc' = "PassDetails"
    /\ config' \in Configs
    /\ total_photons_arrived' = 0 /\ num_dark_counts' = 0 /\ shots' = 0
    /\ alice_bitstring' = <<>> /\ alice_bases' = <<>>
    /\ bob_bases' = <<>> /\ bob_bitstring' = <<>>
    /\ insert_indices' = <<>> /\ origin' = Empty4 /\ pre_injection' = Empty4
    /\ mismatched_indices' = <<>> /\ sifted_key_length' = 0
    /\ string_to_estimate_qber' = <<>> /\ indices_to_estimate_qber' = <<>>
    /\ estimated_qber' = <<>>
    /\ reconciled_key' = ListOf(<<>>) /\ efficiency' = 0
    /\ ask_bits' = 0 /\ reply_bits' = 0
    /\ compare_hash_length' = 0 /\ seed_val' = <<>> /\ compare_key' = "unset"
    /\ safe_key_perc' = -1 /\ final_results' = <<>>
    /\ total_uplink_data' = 0 /\ total_downlink_data' = 0
    /\ records' = <<>> /\ stages' = <<>> /\ error' = "none"
    /\ adapter_error' = "none"

\* main.py:668-700, 721: a click with inputs that pass validate_inputs; a
\* disabled button does not call its command
RunSimulation ==
    /\ run_button = "normal"
    /\ run_button' = ButtonOnStart(run_button)
    /\ output_box' = <<"Running simulation...">>
    /\ workers' = workers + 1
    /\ FreshSession
    /\ UNCHANGED <<fn, args, fn_pc, sim, get_outcome, ret, libVars, error_dialog,
                   eduVars>>

\* main.py:692-695: validate_inputs returned errors
RunSimulationRejected ==
    /\ run_button = "normal"
    /\ error_dialog' = TRUE
    /\ UNCHANGED <<sessionVars, fn, args, fn_pc, sim, get_outcome, ret, libVars,
                   run_button, workers, output_box, eduVars>>

\* main.py:663-665: the OK button of the error window
CloseErrorDialog ==
    /\ error_dialog
    /\ error_dialog' = FALSE
    /\ UNCHANGED <<sessionVars, fn, args, fn_pc, sim, get_outcome, ret, libVars,
                   run_button, workers, output_box, eduVars>>

\* main.py:716-719: the generator is exhausted or has raised; the except
\* clause writes the error line, the finally clause enables the button, and
\* task() ends
TaskEnds ==
    /\ workers >= 1
    /\ Terminal
    /\ output_box' = IF pc = "Aborted"
                     THEN Append(output_box, <<"Error: ", error>>)
                     ELSE output_box
    /\ run_button' = "normal"
    /\ workers' = workers - 1
    /\ UNCHANGED <<sessionVars, fn, args, fn_pc, sim, get_outcome, ret, libVars,
                   error_dialog, eduVars>>

NextGui ==
    \/ RunSimulation
    \/ RunSimulationRejected
    \/ CloseErrorDialog
    \/ TaskEnds
    \/ Next

SpecGui == InitGui /\ [][NextGui]_vars

(***************************************************************************)
(* The educational exchange (src/tracing): ground.py and satellite.py, two *)
(* processes that talk over UDP datagrams and hand the photons over in the *)
(* file queue.pkl.  Datagrams arrive, in the order sent, and a receive     *)
(* waits for as long as it takes; the ground station is started first.     *)
(* One action per stretch of a script between two blocking receives.       *)
(***************************************************************************)
\* config_educ.py:9, in percent
DEPOLARIZATION_ERROR == 20
\* config_educ.py:12, in percent
QBER_SAMPLE_PERCENTAGE == 50

\* ', '.join(map(str, ints)): the numerals the separators stand between; the
\* empty list gives the empty text
join_ints(ints) == [k \in 1..Len(ints) |-> <<ints[k]>>]
\* text.split(', '): the pieces between the separators; the empty text gives
\* one piece, the empty one
split_pieces(text) == IF text = <<>> THEN << <<>> >> ELSE text
\* int(piece) raises ValueError on the empty piece
IntParsable(pieces) == \A k \in 1..Len(pieces) : pieces[k] # <<>>
parse_ints(pieces) == [k \in 1..Len(pieces) |-> pieces[k][1]]

\* the bits and bases encode() built the circuit from
CircuitBits(circuit) ==
    [i \in 1..Len(circuit) |-> IF circuit[i][1] THEN "1" ELSE "0"]
CircuitBases(circuit) ==
    [i \in 1..Len(circuit) |-> IF circuit[i][2] THEN "X" ELSE "Z"]

\* remove_revealed keeping every bit
remove_revealed_Nothing(bitstring, indices) == bitstring
\* ground.py:88-89, satellite.py:74-75: the bits not at the revealed positions
remove_revealed(bitstring, indices) ==
    FilterPos(bitstring, Range(indices), 1)

\* ground.py is blocked in its first receive when satellite.py starts
InitEdu ==
    /\ pc = "NoSession"
    /\ config = NoConfig
    /\ SessionStart
    /\ fn = "none" /\ args = NoArgs /\ fn_pc = "idle" /\ sim = NoSim
    /\ get_outcome = "none" /\ ret = Empty4
    /\ LibIdle
    /\ GuiIdle
    /\ ground = [GroundStart EXCEPT !.pc = "wait_hello"]
    /\ satellite = [SatelliteStart EXCEPT !.pc = "start"]
    /\ to_ground = <<>> /\ to_satellite = <<>> /\ queue_pkl = NoFile

\* what an action of the exchange leaves alone
EduFrame == UNCHANGED <<sessionVars, guiVars, fn, args, fn_pc, sim, get_outcome,
                        ret, libVars>>

\* an uncaught exception ends a script
GroundCrash(exc) == [ground EXCEPT !.pc = "crashed", !.error = exc]
SatelliteCrash(exc) == [satellite EXCEPT !.pc = "crashed", !.error = exc]

\* satellite.py:23-24
SatHello ==
    /\ satellite.pc = "start"
    /\ to_ground' = Append(to_ground, "I want to send you photons")
    /\ satellite' = [satellite EXCEPT !.pc = "wait_ready"]
    /\ UNCHANGED <<ground, to_satellite, queue_pkl>>
    /\ EduFrame

\* ground.py:28-35
GroundReady ==
    /\ ground.pc = "wait_hello"
    /\ to_ground # <<>>
    /\ to_ground' = Tail(to_ground)
    /\ to_satellite' = Append(to_satellite, "Ready to receive photons")
    /\ \E bases \in random_base_string(PHOTON_COUNT) :
          ground' = [ground EXCEPT !.pc = "wait_photons", !.ground_bases = bases]
    /\ UNCHANGED <<satellite, queue_pkl>>
    /\ EduFrame

\* satellite.py:26-39
SatSendPhotons ==
    /\ satellite.pc = "wait_ready"
    /\ to_satellite # <<>>
    /\ to_satellite' = Tail(to_satellite)
    /\ \E bases \in random_base_string(PHOTON_COUNT),
          bits \in random_bitstring(PHOTON_COUNT) :
          /\ satellite' = [satellite EXCEPT !.pc = "wait_bases",
                                            !.satellite_bases = bases,
                                            !.sent = bits,
                                            !.satellite_bitstring = bits]
          /\ queue_pkl' = [exists |-> TRUE, circuit |-> encode(bits, bases)]
    /\ to_ground' = Append(to_ground, "All photons sent")
    /\ UNCHANGED ground
    /\ EduFrame

\* ground.py:37-58
GroundMeasure ==
    /\ ground.pc = "wait_photons"
    /\ to_ground # <<>>
    /\ to_ground' = Tail(to_ground)
    /\ IF ~queue_pkl.exists
       THEN /\ ground' = GroundCrash("FileNotFoundError")
            /\ UNCHANGED <<to_satellite, queue_pkl>>
       ELSE /\ \E bits \in measure(CircuitBits(queue_pkl.circuit),
                                   CircuitBases(queue_pkl.circuit),
                                   ground.ground_bases, DEPOLARIZATION_ERROR, 1) :
                  ground' = [ground EXCEPT !.pc = "wait_mismatched",
                                           !.measured = bits,
                                           !.ground_bitstring = bits]
            /\ queue_pkl' = NoFile
            /\ to_satellite' = Append(to_satellite, ground.ground_bases)
    /\ UNCHANGED satellite
    /\ EduFrame

\* satellite.py:46-54
SatSift ==
    /\ satellite.pc = "wait_bases"
    /\ to_satellite # <<>>
    /\ to_satellite' = Tail(to_satellite)
    /\ LET data == Head(to_satellite)
       IN IF ~BasesComparable(data, satellite.satellite_bases)
          THEN /\ satellite' = SatelliteCrash("ValueError")
               /\ UNCHANGED to_ground
          ELSE LET mm == get_mismatched_indices(data, satellite.satellite_bases)
               IN /\ to_ground' = Append(to_ground, join_ints(mm))
                  /\ satellite' =
                        [satellite EXCEPT
                            !.pc = "wait_sample",
                            !.mismatched_indices = mm,
                            !.satellite_bitstring = discard_bits(@, mm)]
    /\ UNCHANGED <<ground, queue_pkl>>
    /\ EduFrame

\* ground.py:62-80
GroundSift ==
    /\ ground.pc = "wait_mismatched"
    /\ to_ground # <<>>
    /\ to_ground' = Tail(to_ground)
    /\ LET pieces == split_pieces(Head(to_ground))
       IN IF ~IntParsable(pieces)
          THEN /\ ground' = GroundCrash("ValueError")
               /\ UNCHANGED to_satellite
          ELSE
          LET mm == parse_ints(pieces)
              sifted == discard_bits(ground.ground_bitstring, mm)
              num == NumBitsToSelect(sifted, QBER_SAMPLE_PERCENTAGE)
          IN IF ~IndicesInRange(ground.ground_bitstring, mm)
             THEN /\ ground' = [GroundCrash("ValueError") EXCEPT
                                   !.mismatched_indices = mm]
                  /\ UNCHANGED to_satellite
             ELSE IF num > Len(sifted)
             THEN \* random.sample: sample larger than population
                  /\ ground' = [GroundCrash("ValueError") EXCEPT
                                   !.mismatched_indices = mm,
                                   !.ground_bitstring = sifted]
                  /\ UNCHANGED to_satellite
             ELSE \E S \in Samples(Len(sifted), num) :
                    LET chosen == Sorted(S)
                        str == SelectBits(sifted, chosen)
                    IN /\ ground' = [ground EXCEPT
                                        !.pc = "wait_qber",
                                        !.mismatched_indices = mm,
                                        !.ground_bitstring = sifted,
                                        !.string_to_estimate_qber = str,
                                        !.indices_to_estimate_qber = chosen]
                       /\ to_satellite' =
                             to_satellite \o <<str, join_ints(chosen)>>
    /\ UNCHANGED <<satellite, queue_pkl>>
    /\ EduFrame

\* satellite.py:60
SatReceiveSample ==
    /\ satellite.pc = "wait_sample"
    /\ to_satellite # <<>>
    /\ to_satellite' = Tail(to_satellite)
    /\ satellite' = [satellite EXCEPT !.pc = "wait_indices",
                                      !.data = Head(to_satellite)]
    /\ UNCHANGED <<ground, to_ground, queue_pkl>>
    /\ EduFrame

\* satellite.py:63-80
SatQber ==
    /\ satellite.pc = "wait_indices"
    /\ to_satellite # <<>>
    /\ to_satellite' = Tail(to_satellite)
    /\ LET pieces == split_pieces(Head(to_satellite))
       IN IF ~IntParsable(pieces)
          THEN /\ satellite' = SatelliteCrash("ValueError")
               /\ UNCHANGED to_ground
          ELSE
          LET idx == parse_ints(pieces)
              key == satellite.satellite_bitstring
          IN IF ~IndicesInRange(key, idx)
             THEN /\ satellite' = [SatelliteCrash("IndexError") EXCEPT
                                      !.indices_to_estimate_qber = idx]
                  /\ UNCHANGED to_ground
             ELSE IF ~QberComparable(SelectBits(key, idx), satellite.data)
             THEN /\ satellite' = [SatelliteCrash("ValueError") EXCEPT
                                      !.indices_to_estimate_qber = idx]
                  /\ UNCHANGED to_ground
             ELSE LET q == calculate_qber(SelectBits(key, idx), idx, satellite.data)
                  IN /\ to_ground' = Append(to_ground, q)
                     /\ satellite' =
                           [satellite EXCEPT
                               !.pc = "done",
                               !.indices_to_estimate_qber = idx,
                               !.qber = q,
                               !.satellite_bitstring = remove_revealed(@, idx)]
    /\ UNCHANGED <<ground, queue_pkl>>
    /\ EduFrame

\* ground.py:83-94
GroundFinalKey ==
    /\ ground.pc = "wait_qber"
    /\ to_ground # <<>>
    /\ to_ground' = Tail(to_ground)
    /\ ground' = [ground EXCEPT
                     !.pc = "done",
                     !.qber = Head(to_ground),
                     !.ground_bitstring =
                         remove_revealed(@, ground.indices_to_estimate_qber)]
    /\ UNCHANGED <<satellite, to_satellite, queue_pkl>>
    /\ EduFrame

NextEdu ==
    \/ SatHello \/ GroundReady
    \/ SatSendPhotons \/ GroundMeasure
    \/ SatSift \/ GroundSift
    \/ SatReceiveSample \/ SatQber
    \/ GroundFinalKey

SpecEdu == InitEdu /\ [][NextEdu]_vars

\* each script runs whenever it is not blocked in a receive
EduFairness == WF_vars(NextEdu)
SpecEduFair == SpecEdu /\ EduFairness

(***************************************************************************)
(* Properties of the session (specification Spec).                         *)
(***************************************************************************)
RecordOrder ==
    <<"SATELLITE PASS DETAILS", "sat_coords", "PHOTON TRANSMISSION STATS",
      "BASIS RECONCILIATION", "QBER ESTIMATION", "ERROR CORRECTION",
      "FINAL RESULTS", "QKD Simulation Complete">>
StageOrder ==
    <<"Simulate", "Sift", "EstimateQBER", "Reconcile", "Verify",
      "EstimateKeyRate", "Report">>
IsPrefix(s, t) == Len(s) <= Len(t) /\ s = SubSeq(t, 1, Len(s))
Yielded(label) == label \in Range(records)
Entered(stage) == stage \in Range(stages)

VerificationFailed == compare_key = "False"

\* C1: once the gate finds the two hashes different, the generator has ended
\* with the verification error, and it stays ended: no ERROR CORRECTION, FINAL
\* RESULTS or completion record, no call of the key-rate estimator, no
\* secure-key value; and no step is taken from such a state.
C1_AbortOnMismatch ==
    /\ [](VerificationFailed =>
            /\ pc = "Aborted"
            /\ error = "Protocol aborted: error correction verification failed"
            /\ ~Yielded("ERROR CORRECTION")
            /\ ~Yielded("FINAL RESULTS")
            /\ ~Yielded("QKD Simulation Complete")
            /\ ~Entered("EstimateKeyRate")
            /\ safe_key_perc = -1
            /\ final_results = <<>>)
    /\ [][~VerificationFailed]_vars

\* a session whose reconciled key differs from the reference was rejected
C1_Witness ==
    /\ VerificationFailed
    /\ pc = "Aborted"
    /\ reconciled_key.bits # IntList(alice_bitstring)

\* C2: the stages are entered in the order Simulate .. Report and the records
\* yielded in the one fixed order, each at most once: both histories are
\* prefixes of the fixed lists, they only grow at the end, a record is there
\* only when its stage was entered, and an ended generator takes no step.
C2_FixedOrder ==
    /\ [](/\ IsPrefix(records, RecordOrder)
          /\ IsPrefix(stages, StageOrder)
          /\ (Yielded("BASIS RECONCILIATION") => Entered("Sift"))
          /\ (Yielded("QBER ESTIMATION") => Entered("EstimateQBER"))
          /\ (Yielded("ERROR CORRECTION") => Entered("Verify"))
          /\ (Yielded("FINAL RESULTS") => Entered("Report")))
    /\ [][/\ IsPrefix(records, records')
          /\ IsPrefix(stages, stages')
          /\ ~Terminal]_vars

C2_Witness ==
    /\ pc = "Completed"
    /\ records = RecordOrder
    /\ stages = StageOrder

\* C3: when cascade or the key-rate estimator raises, the generator ends with
\* that error: the records stop before ERROR CORRECTION (cascade) or before
\* FINAL RESULTS (key rate), no efficiency, key or key rate is set in its
\* place, and no step follows.
C3_FailurePropagates ==
    /\ [](/\ (adapter_error = "cascade" =>
                /\ pc = "Aborted"
                /\ error = "[Cascade Error] Failed to reconcile keys"
                /\ records = SubSeq(RecordOrder, 1, 5)
                /\ ~Entered("Verify")
                /\ reconciled_key = ListOf(<<>>)
                /\ efficiency = 0
                /\ safe_key_perc = -1
                /\ final_results = <<>>)
          /\ (adapter_error = "key_rate" =>
                /\ pc = "Aborted"
                /\ error = "Failed to compute key rate"
                /\ records = SubSeq(RecordOrder, 1, 6)
                /\ ~Entered("Report")
                /\ safe_key_perc = -1
                /\ final_results = <<>>))
    /\ [][error = "none"]_vars

C3_Witness ==
    /\ adapter_error = "cascade"
    /\ error = "[Cascade Error] Failed to reconcile keys"
    /\ Len(alice_bitstring) >= 1

\* C7: Alice's and Bob's bit sequences have the same length at every stage
\* boundary, and right after the channel simulation the two basis sequences
\* have that length too.
C7_EqualLengths ==
    /\ Len(alice_bitstring) = Len(bob_bitstring)
    /\ Len(alice_bases) = Len(bob_bases)
    /\ (pc = "Sift" => Len(alice_bases) = Len(alice_bitstring))

\* a decoy session holding a dark count, past the removal of the QBER sample
C7_Witness ==
    /\ pc = "Reconcile"
    /\ config.qkd_protocol = "decoy_state"
    /\ num_dark_counts >= 1
    /\ Len(alice_bitstring) >= 1

\* C8: no step of the session lowers the uplink or the downlink counter (the
\* adapter's ask and reply counts are drawn from 0..MaxParity).
C8_CountersMonotone ==
    [][/\ total_uplink_data' >= total_uplink_data
       /\ total_downlink_data' >= total_downlink_data]_vars

C8_Witness ==
    /\ pc = "Completed"
    /\ ask_bits >= 1
    /\ reply_bits >= 1
    /\ total_uplink_data >= float_size_bits + 2
    /\ total_downlink_data > ask_bits

\* the length the verification gate is specified to use: ceil(log2(1/eps))
SpecifiedHashLength == CeilDiv(Log2(EpsPow2, EpsPow10), MICRO)

\* C9: the gate's hash length is ceil(log2(1/eps)), which is 36 for the
\* session's eps.
C9_HashLengthLog2 ==
    Entered("Verify") =>
        /\ compare_hash_length = SpecifiedHashLength
        /\ compare_hash_length = 36

\* C10: a reconciled key equal to the reference bit for bit passes the gate:
\* the Verify step from such a state sets compare_key and yields ERROR
\* CORRECTION, whatever the seed and the family.
C10_EqualKeysAccepted ==
    [][(pc = "Verify" /\ ListInts(reconciled_key) = IntList(alice_bitstring)) =>
          /\ compare_key' = "True"
          /\ pc' = "EstimateKeyRate"
          /\ records' = Append(records, "ERROR CORRECTION")]_vars

\* an accepted non-empty key under a seed that is not all zero, where Bob's
\* key had an error
C10_Witness ==
    /\ pc = "EstimateKeyRate"
    /\ compare_key = "True"
    /\ Len(alice_bitstring) >= 1
    /\ reconciled_key.bits = IntList(alice_bitstring)
    /\ bob_bitstring # alice_bitstring
    /\ 1 \in Range(seed_val)

\* a session on a noiseless channel
Noiseless == pc # "NoSession" /\ config.depolarization_error = 0

WholeBatches(photons, shots_) ==
    (photons \div (BatchSize * shots_)) * BatchSize * shots_

\* C19: in a decoy-state session the raw sequences have the length of the
\* whole-batch rounding of the signal detections plus num_dark_counts, which
\* is at most the detected total the session reports.
C19_DarkCountsAddedOnce ==
    (pc = "Sift" /\ config.qkd_protocol = "decoy_state") =>
        /\ Len(alice_bitstring) =
              WholeBatches(total_photons_arrived - num_dark_counts, shots)
                 + num_dark_counts
        /\ Len(alice_bitstring) <= total_photons_arrived

\* s without its elements at the 0-based positions idx, order kept
Without(s, idx) ==
    LET kept == Sorted((0..(Len(s) - 1)) \ idx)
    IN [k \in 1..Len(kept) |-> s[kept[k] + 1]]

\* the QBER stage has sampled and discarded: the session goes on to Reconcile
Sampled == pc = "EstimateQBER" /\ pc' = "Reconcile"

\* C23: the QBER stage leaves each party its sifted key without the sampled
\* positions, the same positions for both; the working key then has
\* sifted_key_length minus the sample size bits, and no stage after the
\* simulation makes a working key longer.
C23_SampleRemovedFromBoth ==
    [][/\ Sampled =>
           LET idx == Range(indices_to_estimate_qber')
           IN /\ alice_bitstring' = Without(alice_bitstring, idx)
              /\ bob_bitstring' = Without(bob_bitstring, idx)
              /\ Len(alice_bitstring) = sifted_key_length
              /\ Len(alice_bitstring') =
                    sifted_key_length - Len(indices_to_estimate_qber')
              /\ Len(bob_bitstring') = Len(alice_bitstring')
       /\ pc # "Simulate" =>
              /\ Len(alice_bitstring') <= Len(alice_bitstring)
              /\ Len(bob_bitstring') <= Len(bob_bitstring)]_vars

\* a sample of one bit was taken from a two-bit sifted key
C23_Witness ==
    /\ pc = "Reconcile"
    /\ sifted_key_length = 2
    /\ Len(indices_to_estimate_qber) = 1
    /\ Len(alice_bitstring) = 1 /\ Len(bob_bitstring) = 1

\* C25: once the verify stage has run, accepted or not, the uplink counter
\* is the raw basis-sequence length + 32 + reply_bits, and the downlink
\* counter is 32 per mismatched index + 33 per sampled position + ask_bits +
\* the length of the hash seed.
C25_ChannelCounters ==
    Entered("Verify") =>
        /\ total_uplink_data = Len(alice_bases) + 32 + reply_bits
        /\ total_downlink_data =
              32 * Len(mismatched_indices)
                 + 33 * Len(indices_to_estimate_qber)
                 + ask_bits + Len(seed_val)

\* a rejected key: the seed is on the downlink counter all the same
C25_Witness ==
    /\ pc = "Aborted" /\ VerificationFailed
    /\ Len(seed_val) >= 1
    /\ Len(indices_to_estimate_qber) = 1
    /\ reply_bits >= 1 /\ ask_bits >= 1
    /\ total_downlink_data = 33 + ask_bits + Len(seed_val)

\* sifting has finished and left no bit
SiftedEmpty == Yielded("BASIS RECONCILIATION") /\ sifted_key_length = 0

\* C27: with an empty sifted key the session ends in the error of
\* randomly_select_bits at the QBER stage: reconciliation is never called, no
\* QBER is computed or reported, and no FINAL RESULTS is yielded.
C27_EmptySiftedKeyAborts ==
    SiftedEmpty =>
        /\ pc \in {"EstimateQBER", "Aborted"}
        /\ pc = "Aborted" => (Entered("EstimateQBER") /\ error = "ValueError")
        /\ ~Entered("Reconcile")
        /\ estimated_qber = <<>>
        /\ ~Yielded("QBER ESTIMATION")
        /\ ~Yielded("FINAL RESULTS")

\* photons were detected and every basis pair differed: the QBER stage raised
C27_Witness ==
    /\ SiftedEmpty
    /\ Len(alice_bases) >= 1
    /\ pc = "Aborted" /\ error = "ValueError"
    /\ Entered("EstimateQBER")

(***************************************************************************)
(* Properties of the desktop front end (specification SpecGui).            *)
(***************************************************************************)
\* C28: at most one worker thread runs task(); the Run button is disabled
\* exactly while one does, so every way the worker ends (stream exhausted, or
\* an exception, shown as an 'Error: ...' line) leaves it enabled; and a click
\* whose inputs fail validation starts no worker and leaves the button enabled.
C28_OneWorkerAtATime ==
    /\ [](/\ workers <= 1
          /\ workers = 1 <=> run_button = "disabled"
          /\ (workers = 0 /\ pc = "Aborted") =>
                output_box[Len(output_box)] = <<"Error: ", error>>)
    /\ [][(error_dialog' /\ ~error_dialog) =>
             (workers' = workers /\ workers = 0 /\ run_button' = "normal"
              /\ pc' = pc /\ records' = records)]_vars

\* a run ended by the verification abort: the error line is shown and the
\* button is enabled again
C28_Witness ==
    /\ workers = 0 /\ run_button = "normal"
    /\ pc = "Aborted" /\ VerificationFailed
    /\ output_box = <<"Running simulation...",
                      <<"Error: ",
                        "Protocol aborted: error correction verification failed">>>>

(***************************************************************************)
(* Properties of the educational exchange (specifications SpecEdu and      *)
(* SpecEduFair).                                                           *)
(***************************************************************************)
EduCrashed == ground.pc = "crashed" \/ satellite.pc = "crashed"
EduCompleted == ground.pc = "done" /\ satellite.pc = "done"

\* C29: with datagrams delivered in order, receives that wait, and the ground
\* station started first, neither script ends in an exception, the photon
\* file is there when the ground station opens it, and both scripts reach
\* their final key, whatever the bases and bits drawn.
C29_ExchangeCompletes ==
    /\ [](~EduCrashed)
    /\ <>EduCompleted

\* C30: when both scripts have finished, both removed the same mismatched
\* positions and then the same sampled positions from the bits of the same
\* photons, so the final keys have one length; and the QBER the satellite
\* reported is the share of the ground station's sampled bits that differ
\* from the satellite's bits at the sampled positions.
C30_SameKeyPositions ==
    EduCompleted =>
        LET mm == ground.mismatched_indices
            idx == ground.indices_to_estimate_qber
            sat_sifted == Without(satellite.sent, Range(mm))
        IN /\ satellite.mismatched_indices = mm
           /\ satellite.indices_to_estimate_qber = idx
           /\ ground.ground_bitstring =
                 Without(Without(ground.measured, Range(mm)), Range(idx))
           /\ satellite.satellite_bitstring =
                 Without(sat_sifted, Range(idx))
           /\ Len(ground.ground_bitstring) = Len(satellite.satellite_bitstring)
           /\ Len(ground.string_to_estimate_qber) = Len(idx)
           /\ satellite.qber =
                 <<Cardinality({k \in 1..Len(idx) :
                                  sat_sifted[idx[k] + 1]
                                     # ground.string_to_estimate_qber[k]}),
                   Len(idx)>>
           /\ ground.qber = satellite.qber

\* three photons, one basis mismatch, one of the two sifted bits sampled: both
\* final keys have one bit
C30_Witness ==
    /\ EduCompleted
    /\ Len(ground.mismatched_indices) = 1
    /\ Len(ground.indices_to_estimate_qber) = 1
    /\ Len(ground.ground_bitstring) = 1
    /\ Len(satellite.satellite_bitstring) = 1

(***************************************************************************)
(* Properties of the decoy simulators (specification SpecCall).            *)
(***************************************************************************)
\* the 0-based positions of a list that hold inserted entries
DarkPositions(o) == {i - 1 : i \in {k \in 1..Len(o) : o[k] = 0}}
\* a simulation has run and its result is at hand
Simulated == fn_pc \in {"ready", "returned"} /\ get_outcome \in {"none", "value"}

\* C4: bench_parallel_decoy_simulation returns the simulation's four
\* sequences when result.get returned them in time, and the empty sentinel
\* only after a timeout.
C4_BenchReturnsResult ==
    (fn = "bench_parallel_decoy_simulation" /\ fn_pc = "returned") =>
        /\ (get_outcome = "value" => ret = sim.ret)
        /\ (ret = Empty4 /\ get_outcome = "value" => sim.ret = Empty4)

\* C5: the inserted entries sit exactly at the sampled positions.
C5_DarkAtSampledPositions ==
    (Simulated /\ fn_pc # "idle") =>
        \A n \in 1..4 : DarkPositions(sim.origin[n]) = Range(sim.idxs)

\* C6: after the injection the four sequences have length L + num_dark, the
\* inserted entries are at the same num_dark positions in all four, and each
\* sequence without those positions is its concatenation before the
\* injection.
C6_CorrelatedInsert ==
    Simulated =>
        \A n \in 1..4 :
            /\ Len(sim.idxs) = args.num_dark
            /\ Len(sim.ret[n]) = Len(sim.pre[n]) + Len(sim.idxs)
            /\ Len(sim.pre[n]) = Len(sim.pre[1])
            /\ Len(sim.origin[n]) = Len(sim.ret[n])
            /\ DarkPositions(sim.origin[n]) = DarkPositions(sim.origin[1])
            /\ Cardinality(DarkPositions(sim.origin[n])) = Len(sim.idxs)
            /\ FilterPos(sim.ret[n], DarkPositions(sim.origin[n]), 1) = sim.pre[n]

\* two dark counts sampled at 0 and 1 in front of one photon
C6_Witness ==
    /\ fn = "parallel_decoy_simulation"
    /\ fn_pc = "returned"
    /\ Len(sim.pre[1]) = 1
    /\ sim.idxs = <<0, 1>>
    /\ Len(ret[1]) = 3

(***************************************************************************)
(* Properties of the utility functions (specification SpecUtil).           *)
(***************************************************************************)
Returned(f) == fn = f /\ fn_pc = "returned"
Raised(f) == fn = f /\ fn_pc = "raised"

\* round(a / b) as Python rounds: to the nearest integer, a tie to the even one
RoundDiv(a, b) ==
    LET q == a \div b
        r == a % b
    IN IF 2 * r > b THEN q + 1
       ELSE IF 2 * r = b THEN q + (q % 2)
       ELSE q

\* the sample size randomly_select_bits is specified to take
SpecifiedSampleSize(bitstring, percentage) ==
    Max(1, RoundDiv(Len(bitstring) * percentage, 100))

\* C11: for a non-empty key and a percentage in (0, 1], randomly_select_bits
\* selects exactly max(1, round(len(key) * percentage)) positions.
C11_SampleSizeRounded ==
    (Returned("randomly_select_bits") /\ Len(args.bitstring) >= 1) =>
        /\ Len(ret[2]) = SpecifiedSampleSize(args.bitstring, args.percentage)
        /\ Len(ret[1]) = Len(ret[2])

\* C12: with every index in range, discard_bits returns the elements at the
\* positions not listed, in their original order: the result has
\* len(seq) - |set(idx)| elements (a repeated index counts once), and an empty
\* index list gives seq back.
C12_DiscardKeepsOthers ==
    Returned("discard_bits") =>
        LET seq == args.bitstring
            idx == args.mismatched_indices
            kept == Sorted((0..(Len(seq) - 1)) \ Range(idx))
        IN /\ Len(ret) = Len(seq) - Cardinality(Range(idx))
           /\ ret = [k \in 1..Len(kept) |-> seq[kept[k] + 1]]
           /\ (idx = <<>> => ret = seq)

\* position 1 listed twice in a call on '011'
C12_Witness ==
    /\ Returned("discard_bits")
    /\ args.bitstring = <<"0", "1", "1">>
    /\ args.mismatched_indices = <<1, 1>>
    /\ ret = <<"0", "1">>

\* C13: a call of discard_bits with any index outside [0, len(seq)), a
\* negative one or any index on an empty sequence included, raises ValueError
\* and returns nothing.
C13_DiscardRejectsOutOfRange ==
    (fn = "discard_bits" /\ fn_pc # "idle"
        /\ \E i \in Range(args.mismatched_indices) :
              i < 0 \/ i >= Len(args.bitstring)) =>
        /\ fn_pc = "raised"
        /\ raised = "ValueError"
        /\ ret = Empty4

\* index -1 next to a valid index, on a non-empty sequence
C13_Witness ==
    /\ Raised("discard_bits")
    /\ args.mismatched_indices = <<0, -1>>
    /\ Len(args.bitstring) = 2

\* s[i] < s[i + 1] for every adjacent pair of the list s
StrictlyAscending(s) == \A i \in 1..(Len(s) - 1) : s[i] < s[i + 1]

\* C14: for equal-length basis strings get_mismatched_indices returns the
\* positions where they differ, each once, ascending, within [0, len); the
\* arguments swapped give the same list; 'ZXZX' against 'ZXXZ' gives [2, 3].
C14_MismatchedPositions ==
    Returned("get_mismatched_indices") =>
        LET A == args.alice_bases
            B == args.bob_bases
        IN /\ Range(ret) = {i \in 0..(Len(A) - 1) : A[i + 1] # B[i + 1]}
           /\ StrictlyAscending(ret)
           /\ \A k \in 1..Len(ret) : 0 <= ret[k] /\ ret[k] < Len(A)
           /\ get_mismatched_indices(B, A) = ret
           /\ (A = <<"Z", "X", "Z", "X">> /\ B = <<"Z", "X", "X", "Z">>
                 => ret = <<2, 3>>)

\* the call on 'ZXZX' and 'ZXXZ'
C14_Witness ==
    /\ Returned("get_mismatched_indices")
    /\ args.alice_bases = <<"Z", "X", "Z", "X">>
    /\ args.bob_bases = <<"Z", "X", "X", "Z">>
    /\ ret = <<2, 3>>

\* the two paired sequences of a call, for the three functions that take a pair
PairedArgs ==
    CASE fn = "get_mismatched_indices" -> <<args.alice_bases, args.bob_bases>>
      [] fn = "calculate_qber" ->
            <<args.alice_selected_bitstring, args.bob_selected_bitstring>>
      [] fn = "encode" -> <<args.bits, args.bases>>

\* C15: get_mismatched_indices, calculate_qber and encode called on two
\* sequences of different lengths raise ValueError and return nothing; for
\* calculate_qber that includes an empty sequence paired with a non-empty one.
C15_UnequalLengthsRejected ==
    (fn \in {"get_mismatched_indices", "calculate_qber", "encode"}
        /\ fn_pc # "idle"
        /\ Len(PairedArgs[1]) # Len(PairedArgs[2])) =>
        /\ fn_pc = "raised"
        /\ raised = "ValueError"
        /\ ret = Empty4

\* calculate_qber given an empty string and a non-empty one
C15_Witness ==
    /\ Raised("calculate_qber")
    /\ args.alice_selected_bitstring = <<>>
    /\ Len(args.bob_selected_bitstring) = 2

\* the number of positions where two equal-length strings differ
Differences(a, b) == Cardinality({i \in 1..Len(a) : a[i] # b[i]})

\* C16: on equal-length inputs calculate_qber returns differences / length,
\* and 0.0 when both are empty; the value lies in [0, 1]; a sequence compared
\* with itself gives 0.0 whatever the index list.
C16_QberIsErrorFraction ==
    Returned("calculate_qber") =>
        LET a == args.alice_selected_bitstring
            b == args.bob_selected_bitstring
        IN /\ (Len(a) = 0 => ret[1] = 0)
           /\ (Len(a) > 0 => ret[1] = Differences(a, b) /\ ret[2] = Len(a))
           /\ ret[2] >= 1 /\ 0 <= ret[1] /\ ret[1] <= ret[2]
           /\ (a = b => ret[1] = 0)

\* one difference in two bits
C16_Witness ==
    /\ Returned("calculate_qber")
    /\ args.alice_selected_bitstring = <<"0", "1">>
    /\ args.bob_selected_bitstring = <<"1", "1">>
    /\ args.chosen_indices = <<0, 1>>
    /\ ret = <<1, 2>>

\* p is the smallest prime that is at least k
SmallestPrimeFrom(p, k) ==
    /\ p >= k
    /\ IsPrime(p)
    /\ \A q \in k..(p - 1) : ~IsPrime(q)

IsBitList(s) == \A i \in 1..Len(s) : s[i] \in {0, 1}

HashReturned == Returned("toeplitz") \/ Returned("circulant")

\* C22: toeplitz() and circulant() leave the key they are given as it was,
\* same length and same contents, be it a str or a list of bits.
C22_HashKeepsKey == HashReturned => sim.key = args.key

\* C24: on a non-empty key randomly_select_bits returns its indices strictly
\* increasing and within the key, and the k-th sampled bit is the key's bit at
\* the k-th index.
C24_SampleMatchesIndices ==
    (fn = "randomly_select_bits" /\ Len(args.bitstring) >= 1 /\ fn_pc # "idle") =>
        /\ fn_pc = "returned"
        /\ LET sampledBits == ret[1]
               indices == ret[2]
           IN /\ Len(sampledBits) = Len(indices)
              /\ \A k \in 1..Len(indices) :
                    /\ 0 <= indices[k] /\ indices[k] < Len(args.bitstring)
                    /\ k > 1 => indices[k - 1] < indices[k]
                    /\ sampledBits[k] = args.bitstring[indices[k] + 1]

\* positions 1 and 3 of '0110' were sampled
C24_Witness ==
    /\ Returned("randomly_select_bits")
    /\ args.bitstring = <<"0", "1", "1", "0">>
    /\ ret = <<<<"1", "0">>, <<1, 3>>>>

\* the bits of a key argument, as ints
KeyBits(a) ==
    IF a.is_list THEN a.key_list.bits
    ELSE [i \in 1..Len(a.key_str) |-> IF a.key_str[i] = "1" THEN 1 ELSE 0]

\* C26: for every seed circulant_seed gives for the key, circulant() hashes
\* seed_length - 1 bits: the key's bits unchanged, then zeros; a key of
\* seed_length - 1 bits is hashed as it is.
C26_CirculantPadsWithZeros ==
    Returned("circulant") =>
        LET key == KeyBits(args.key)
            seed_length == Len(args.seed)
            hashed == sim.input_bits
        IN /\ Len(hashed) = seed_length - 1
           /\ SubSeq(hashed, 1, Len(key)) = key
           /\ \A i \in (Len(key) + 1)..Len(hashed) : hashed[i] = 0
           /\ Len(key) = seed_length - 1 => hashed = key

\* a list key of three ones under a five-bit seed: one zero is added
C26_Witness ==
    /\ Returned("circulant")
    /\ args.key.is_list
    /\ KeyBits(args.key) = <<1, 1, 1>>
    /\ Len(args.seed) = 5
    /\ sim.input_bits = <<1, 1, 1, 0>>

Benching == fn = "bench_parallel_decoy_simulation"
BenchReturned == Benching /\ fn_pc = "returned"

\* C21: a call of bench_parallel_decoy_simulation returns, whatever the worker
\* does (it finishes, it raises, the timeout passes first), and when it has
\* returned the pool has been closed, terminated and joined, in that order.
C21_BenchAlwaysReturns ==
    /\ [](BenchReturned =>
            pool = <<"Pool", "apply_async", "close", "terminate", "join">>)
    /\ (Benching ~> BenchReturned)

\* the call returned after the worker raised
C21_Witness ==
    /\ BenchReturned
    /\ get_outcome = "exception"
    /\ pool = <<"Pool", "apply_async", "close", "terminate", "join">>

(***************************************************************************)
(* Properties of the worker pool (specification SpecPool).                 *)
(***************************************************************************)
\* the photons of one batch
BatchLength == args.circuit * args.shots

====
